---- MODULE Spec2Model ----
(***************************************************************************)
(* Model of package race (src/race.go, second version of the file, lines   *)
(* 91-241): Race.Between and Race.FirstThenStart, the goroutines they      *)
(* start with makeRequest, the two unbuffered channels onComplete and      *)
(* onError, the cancellation context and the two timers.                   *)
(*                                                                         *)
(* One behaviour is one call.  Operations are numbered: 0 is the `first`   *)
(* request of FirstThenStart, 1..n are reqs[0..n-1].  A response and an    *)
(* error are identified by the number of the operation that produced them. *)
(***************************************************************************)
EXTENDS Integers, Sequences, FiniteSets, TLC

\* largest len(reqs) explored
MaxReqs == 2

\* the `first` request of FirstThenStart
Primary == 0

\* a nil error / nil response
Nil == 0 - 1

VARIABLES
    mode,          \* which entry point is called: "Between" or "FirstThenStart"
    n,             \* len(reqs)
    timeoutSet,    \* race.client.Timeout > 0
    pc,            \* position of the calling goroutine
    k,             \* index of the `for _, r := range reqs` launch loop (1-based)
    st,            \* per operation: position of its makeRequest goroutine
    outcome,       \* per operation: what client.Do returned ("none" while running)
    cut,           \* per operation: client.Do failed because the deadline had passed
    errs,          \* the local `errs` slice
    firstErr,      \* the local `firstErr` of FirstThenStart
    retKind,       \* "none" until the call returns, then "resp" or "agg"
    retRes,        \* the returned *http.Response
    retErrs,       \* the Errors of the returned *multierror.Error
    retAt,         \* the select statement the call returned from
    deadlineFired, \* the context.WithTimeout deadline of Between has passed
    cancelled,     \* the deferred cancel() has run
    warmFired,     \* ctxFirstTimeout is done
    recvd,         \* history: operations whose outcome the caller received, in order
    okAtDeadline,  \* history: some client.Do had succeeded when the deadline passed
    calls          \* history: number of makeRequest goroutines started

vars == <<mode, n, timeoutSet, pc, k, st, outcome, cut, errs, firstErr,
          retKind, retRes, retErrs, retAt, deadlineFired, cancelled,
          warmFired, recvd, okAtDeadline, calls>>

Ops == 0..MaxReqs

\* ctx.Done() is closed: by the deadline or by cancel
CtxDone == deadlineFired \/ cancelled

DoResultIgnoresCtx(done) == {"ok", "err"}
\* race.client.Do(req): a request whose context is done fails
DoResult(done) == IF done THEN {"err"} ELSE {"ok", "err"}

AllFailedEarly(errors, reqs) == Len(errors) >= 1
\* `len(errs) == len(reqs)` of Between
BetweenAllFailed(errors, reqs) == Len(errors) = reqs

StagedAllFailedAll(errors, reqs) == Len(errors) = reqs + 1
\* `len(errs) == len(reqs)` of FirstThenStart
StagedAllFailed(errors, reqs) == Len(errors) = reqs

\* the errors sorted by request index
RECURSIVE SubmissionOrder(_, _)
SubmissionOrder(errors, i) ==
    IF i > MaxReqs THEN <<>>
    ELSE SelectSeq(errors, LAMBDA e : e = i) \o SubmissionOrder(errors, i + 1)

AggregateSubmissionOrder(errors) == SubmissionOrder(errors, 0)
AggregateDropFirst(errors) == IF errors = <<>> THEN errors ELSE Tail(errors)
\* allerrors of Between: multierror.Append(allerrors, errs...)
BetweenAggregate(errors) == errors

AggregateFirstLast(first, errors) == IF first # Nil THEN errors \o <<first>> ELSE errors
\* allerrors of FirstThenStart: firstErr, if any, then errs
StagedAggregate(first, errors) == IF first # Nil THEN <<first>> \o errors ELSE errors

Init ==
    /\ mode \in {"Between", "FirstThenStart"}
    /\ n \in 0..MaxReqs
    /\ timeoutSet \in (IF mode = "Between" THEN BOOLEAN ELSE {FALSE})
    /\ pc = "start"
    /\ k = 1
    /\ st = [i \in Ops |-> "idle"]
    /\ outcome = [i \in Ops |-> "none"]
    /\ cut = [i \in Ops |-> FALSE]
    /\ errs = <<>>
    /\ firstErr = Nil
    /\ retKind = "none"
    /\ retRes = Nil
    /\ retErrs = <<>>
    /\ retAt = "none"
    /\ deadlineFired = FALSE
    /\ cancelled = FALSE
    /\ warmFired = FALSE
    /\ recvd = <<>>
    /\ okAtDeadline = FALSE
    /\ calls = 0

\* `go race.makeRequest(onComplete, onError, req)`
Go(i) ==
    /\ st' = [st EXCEPT ![i] = "running"]
    /\ calls' = calls + 1

\* `return res, nil`, then the deferred cancel functions
ReturnResponse(i, at) ==
    /\ pc' = "done"
    /\ retKind' = "resp"
    /\ retRes' = i
    /\ retAt' = at
    /\ cancelled' = TRUE
    /\ UNCHANGED retErrs

\* `return nil, allerrors`, then the deferred cancel functions
ReturnErrors(all, at) ==
    /\ pc' = "done"
    /\ retKind' = "agg"
    /\ retErrs' = all
    /\ retAt' = at
    /\ cancelled' = TRUE
    /\ UNCHANGED retRes

(***************************************************************************)
(* makeRequest                                                             *)
(***************************************************************************)

\* `res, err := race.client.Do(req)`; the goroutine then blocks on its send
DoReturns(i) ==
    /\ st[i] = "running"
    /\ \E r \in DoResult(CtxDone) :
          /\ outcome' = [outcome EXCEPT ![i] = r]
          /\ st' = [st EXCEPT ![i] = IF r = "ok" THEN "sendOk" ELSE "sendErr"]
          /\ cut' = [cut EXCEPT ![i] = (r = "err" /\ deadlineFired)]
    /\ UNCHANGED <<mode, n, timeoutSet, okAtDeadline, pc, k, errs, firstErr, retKind, retRes,
                   retErrs, retAt, deadlineFired, cancelled, warmFired, recvd, calls>>

(***************************************************************************)
(* timers                                                                  *)
(***************************************************************************)

\* the deadline of context.WithTimeout(context.Background(), timeout)
DeadlineFires ==
    /\ mode = "Between"
    /\ timeoutSet
    /\ pc # "start"
    /\ ~CtxDone
    /\ deadlineFired' = TRUE
    /\ okAtDeadline' = (\E i \in Ops : outcome[i] = "ok")
    /\ UNCHANGED <<mode, n, timeoutSet, pc, k, st, outcome, cut, errs, firstErr,
                   retKind, retRes, retErrs, retAt, cancelled, warmFired, recvd, calls>>

WarmUpExpiresCancels ==
    /\ mode = "FirstThenStart"
    /\ pc \notin {"start", "done"}
    /\ ~warmFired
    /\ warmFired' = TRUE
    /\ cancelled' = TRUE
    /\ UNCHANGED <<mode, n, timeoutSet, okAtDeadline, pc, k, st, outcome, cut, errs, firstErr,
                   retKind, retRes, retErrs, retAt, deadlineFired, recvd, calls>>
\* the deadline of ctxFirstTimeout
WarmUpExpires ==
    /\ mode = "FirstThenStart"
    /\ pc \notin {"start", "done"}
    /\ ~warmFired
    /\ warmFired' = TRUE
    /\ UNCHANGED <<mode, n, timeoutSet, okAtDeadline, pc, k, st, outcome, cut, errs, firstErr,
                   retKind, retRes, retErrs, retAt, deadlineFired, cancelled, recvd, calls>>

(***************************************************************************)
(* Race.Between                                                            *)
(***************************************************************************)

\* createContext, make(chan ...) x 2
BetweenStart ==
    /\ mode = "Between"
    /\ pc = "start"
    /\ pc' = "launch"
    /\ UNCHANGED <<mode, n, timeoutSet, okAtDeadline, k, st, outcome, cut, errs, firstErr, retKind,
                   retRes, retErrs, retAt, deadlineFired, cancelled, warmFired, recvd, calls>>

\* one iteration of `for _, r := range reqs`
BetweenLaunch ==
    /\ mode = "Between"
    /\ pc = "launch"
    /\ k <= n
    /\ Go(k)
    /\ k' = k + 1
    /\ UNCHANGED <<mode, n, timeoutSet, okAtDeadline, pc, outcome, cut, errs, firstErr, retKind,
                   retRes, retErrs, retAt, deadlineFired, cancelled, warmFired, recvd>>

\* the launch loop ends; `var errs []error` and the caller reaches the select
BetweenLoop ==
    /\ mode = "Between"
    /\ pc = "launch"
    /\ k > n
    /\ pc' = "select"
    /\ UNCHANGED <<mode, n, timeoutSet, okAtDeadline, k, st, outcome, cut, errs, firstErr, retKind,
                   retRes, retErrs, retAt, deadlineFired, cancelled, warmFired, recvd, calls>>

\* `case res := <-onComplete: return res, nil`
BetweenRecvComplete(i) ==
    /\ mode = "Between"
    /\ pc = "select"
    /\ st[i] = "sendOk"
    /\ st' = [st EXCEPT ![i] = "done"]
    /\ recvd' = Append(recvd, i)
    /\ ReturnResponse(i, "between")
    /\ UNCHANGED <<mode, n, timeoutSet, okAtDeadline, k, outcome, cut, errs, firstErr,
                   deadlineFired, warmFired, calls>>

\* `case err := <-onError:` append, and return when all requests failed
BetweenRecvError(i) ==
    /\ mode = "Between"
    /\ pc = "select"
    /\ st[i] = "sendErr"
    /\ st' = [st EXCEPT ![i] = "done"]
    /\ recvd' = Append(recvd, i)
    /\ errs' = Append(errs, i)
    /\ IF BetweenAllFailed(errs', n)
          THEN ReturnErrors(BetweenAggregate(errs'), "between")
          ELSE UNCHANGED <<pc, retKind, retRes, retErrs, retAt, cancelled>>
    /\ UNCHANGED <<mode, n, timeoutSet, okAtDeadline, k, outcome, cut, firstErr,
                   deadlineFired, warmFired, calls>>

(***************************************************************************)
(* Race.FirstThenStart                                                     *)
(***************************************************************************)

\* the two contexts, the two channels, `go race.makeRequest(..., first...)`
StagedStart ==
    /\ mode = "FirstThenStart"
    /\ pc = "start"
    /\ Go(Primary)
    /\ pc' = "phase1"
    /\ UNCHANGED <<mode, n, timeoutSet, okAtDeadline, k, outcome, cut, errs, firstErr, retKind,
                   retRes, retErrs, retAt, deadlineFired, cancelled, warmFired, recvd>>

Phase1RecvCompleteBreak ==
    /\ mode = "FirstThenStart"
    /\ pc = "phase1"
    /\ st[Primary] = "sendOk"
    /\ st' = [st EXCEPT ![Primary] = "done"]
    /\ recvd' = Append(recvd, Primary)
    /\ pc' = "launch"
    /\ UNCHANGED <<mode, n, timeoutSet, okAtDeadline, k, outcome, cut, errs, firstErr,
                   retKind, retRes, retErrs, retAt, deadlineFired, cancelled,
                   warmFired, calls>>
\* FOR loop, `case res := <-onComplete: return res, nil`
Phase1RecvComplete ==
    /\ mode = "FirstThenStart"
    /\ pc = "phase1"
    /\ st[Primary] = "sendOk"
    /\ st' = [st EXCEPT ![Primary] = "done"]
    /\ recvd' = Append(recvd, Primary)
    /\ ReturnResponse(Primary, "phase1")
    /\ UNCHANGED <<mode, n, timeoutSet, okAtDeadline, k, outcome, cut, errs, firstErr,
                   deadlineFired, warmFired, calls>>

Phase1TimeoutDrops ==
    /\ mode = "FirstThenStart"
    /\ pc = "phase1"
    /\ warmFired
    /\ pc' = "launch"
    /\ st' = [st EXCEPT ![Primary] = "done"]
    /\ UNCHANGED <<mode, n, timeoutSet, okAtDeadline, k, outcome, cut, errs, firstErr, retKind,
                   retRes, retErrs, retAt, deadlineFired, cancelled, warmFired, recvd, calls>>
\* FOR loop, `case <-ctxFirstTimeout.Done(): break FOR`
Phase1Timeout ==
    /\ mode = "FirstThenStart"
    /\ pc = "phase1"
    /\ warmFired
    /\ pc' = "launch"
    /\ UNCHANGED <<mode, n, timeoutSet, okAtDeadline, k, st, outcome, cut, errs, firstErr, retKind,
                   retRes, retErrs, retAt, deadlineFired, cancelled, warmFired, recvd, calls>>

Phase1RecvErrorWait ==
    /\ mode = "FirstThenStart"
    /\ pc = "phase1"
    /\ st[Primary] = "sendErr"
    /\ st' = [st EXCEPT ![Primary] = "done"]
    /\ recvd' = Append(recvd, Primary)
    /\ firstErr' = Primary
    /\ UNCHANGED <<mode, n, timeoutSet, okAtDeadline, pc, k, outcome, cut, errs, retKind,
                   retRes, retErrs, retAt, deadlineFired, cancelled, warmFired, calls>>
\* FOR loop, `case firstErr = <-onError: break FOR`
Phase1RecvError ==
    /\ mode = "FirstThenStart"
    /\ pc = "phase1"
    /\ st[Primary] = "sendErr"
    /\ st' = [st EXCEPT ![Primary] = "done"]
    /\ recvd' = Append(recvd, Primary)
    /\ firstErr' = Primary
    /\ pc' = "launch"
    /\ UNCHANGED <<mode, n, timeoutSet, okAtDeadline, k, outcome, cut, errs, retKind, retRes,
                   retErrs, retAt, deadlineFired, cancelled, warmFired, calls>>

\* one iteration of `for _, req := range reqs`
StagedLaunch ==
    /\ mode = "FirstThenStart"
    /\ pc = "launch"
    /\ k <= n
    /\ Go(k)
    /\ k' = k + 1
    /\ UNCHANGED <<mode, n, timeoutSet, okAtDeadline, pc, outcome, cut, errs, firstErr, retKind,
                   retRes, retErrs, retAt, deadlineFired, cancelled, warmFired, recvd>>

\* the launch loop ends; `var errs []error` and the caller reaches the second select
StagedLoop ==
    /\ mode = "FirstThenStart"
    /\ pc = "launch"
    /\ k > n
    /\ pc' = "phase2"
    /\ UNCHANGED <<mode, n, timeoutSet, okAtDeadline, k, st, outcome, cut, errs, firstErr, retKind,
                   retRes, retErrs, retAt, deadlineFired, cancelled, warmFired, recvd, calls>>

Phase2RecvCompleteIgnore(i) ==
    /\ mode = "FirstThenStart"
    /\ pc = "phase2"
    /\ st[i] = "sendOk"
    /\ st' = [st EXCEPT ![i] = "done"]
    /\ recvd' = Append(recvd, i)
    /\ UNCHANGED <<mode, n, timeoutSet, okAtDeadline, pc, k, outcome, cut, errs, firstErr,
                   retKind, retRes, retErrs, retAt, deadlineFired, cancelled,
                   warmFired, calls>>
\* second loop, `case res := <-onComplete: return res, nil`
Phase2RecvComplete(i) ==
    /\ mode = "FirstThenStart"
    /\ pc = "phase2"
    /\ st[i] = "sendOk"
    /\ st' = [st EXCEPT ![i] = "done"]
    /\ recvd' = Append(recvd, i)
    /\ ReturnResponse(i, "phase2")
    /\ UNCHANGED <<mode, n, timeoutSet, okAtDeadline, k, outcome, cut, errs, firstErr,
                   deadlineFired, warmFired, calls>>

\* second loop, `case err := <-onError:` append, and return when all requests failed
Phase2RecvError(i) ==
    /\ mode = "FirstThenStart"
    /\ pc = "phase2"
    /\ st[i] = "sendErr"
    /\ st' = [st EXCEPT ![i] = "done"]
    /\ recvd' = Append(recvd, i)
    /\ errs' = Append(errs, i)
    /\ IF StagedAllFailed(errs', n)
          THEN ReturnErrors(StagedAggregate(firstErr, errs'), "phase2")
          ELSE UNCHANGED <<pc, retKind, retRes, retErrs, retAt, cancelled>>
    /\ UNCHANGED <<mode, n, timeoutSet, okAtDeadline, k, outcome, cut, firstErr,
                   deadlineFired, warmFired, calls>>

\* the steps of the calling goroutine
Caller ==
    \/ BetweenStart
    \/ BetweenLaunch
    \/ BetweenLoop
    \/ \E i \in Ops : BetweenRecvComplete(i)
    \/ \E i \in Ops : BetweenRecvError(i)
    \/ StagedStart
    \/ Phase1RecvComplete
    \/ Phase1Timeout
    \/ Phase1RecvError
    \/ StagedLaunch
    \/ StagedLoop
    \/ \E i \in Ops : Phase2RecvComplete(i)
    \/ \E i \in Ops : Phase2RecvError(i)

Next ==
    \/ BetweenStart
    \/ BetweenLaunch
    \/ BetweenLoop
    \/ \E i \in Ops : BetweenRecvComplete(i)
    \/ \E i \in Ops : BetweenRecvError(i)
    \/ StagedStart
    \/ Phase1RecvComplete
    \/ Phase1Timeout
    \/ Phase1RecvError
    \/ StagedLaunch
    \/ StagedLoop
    \/ \E i \in Ops : Phase2RecvComplete(i)
    \/ \E i \in Ops : Phase2RecvError(i)
    \/ \E i \in Ops : DoReturns(i)
    \/ DeadlineFires
    \/ WarmUpExpires

Spec == Init /\ [][Next]_vars

\* The Go scheduler runs every runnable goroutine and the executor returns from
\* every client.Do; nothing is assumed of the timers, which may never fire.
NoTimerSpec ==
    /\ Init
    /\ [][Next]_vars
    /\ WF_vars(Caller)
    /\ \A i \in Ops : WF_vars(DoReturns(i))

\* The Go scheduler runs every runnable goroutine, the executor returns from
\* every client.Do, and an armed timer fires.
FairSpec ==
    /\ Init
    /\ [][Next]_vars
    /\ WF_vars(Caller)
    /\ \A i \in Ops : WF_vars(DoReturns(i))
    /\ WF_vars(DeadlineFires)
    /\ WF_vars(WarmUpExpires)

TypeOK ==
    /\ mode \in {"Between", "FirstThenStart"}
    /\ n \in 0..MaxReqs
    /\ timeoutSet \in BOOLEAN
    /\ pc \in {"start", "launch", "select", "phase1", "phase2", "done"}
    /\ k \in 1..(MaxReqs + 1)
    /\ st \in [Ops -> {"idle", "running", "sendOk", "sendErr", "done"}]
    /\ outcome \in [Ops -> {"none", "ok", "err"}]
    /\ cut \in [Ops -> BOOLEAN]
    /\ retKind \in {"none", "resp", "agg"}
    /\ calls \in 0..(MaxReqs + 1)

(***************************************************************************)
(* Properties                                                              *)
(***************************************************************************)

\* the operations whose failure was received, as a set
Range(seq) == {seq[j] : j \in 1..Len(seq)}

\* position j of recvd is the first received success
FirstSuccessAt(j) ==
    /\ outcome[recvd[j]] = "ok"
    /\ \A h \in 1..(j - 1) : outcome[recvd[h]] = "err"

C1Pre ==
    /\ mode = "Between"
    /\ ~timeoutSet
    /\ n >= 1
    /\ \E i \in 1..n : outcome[i] = "ok"

C1Post ==
    /\ retKind = "resp"
    /\ retRes \in 1..n
    /\ outcome[retRes] = "ok"
    /\ recvd # <<>>
    /\ recvd[Len(recvd)] = retRes
    /\ FirstSuccessAt(Len(recvd))
    /\ retErrs = <<>>

\* C1: in Between with a non-empty batch and no client timeout, once some
\* operation has succeeded the call eventually returns, and what it returns is
\* never an error but the response of one operation of the batch: the first
\* success received on onComplete, however many failures were received before.
C1_FirstSuccessWins ==
    /\ [](C1Pre /\ pc = "done" => C1Post)
    /\ (C1Pre ~> C1Post)

\* C1 witness: a response returned after a failure had been received
C1_Witness ==
    /\ C1Pre
    /\ C1Post
    /\ Len(errs) >= 1

C2Pre ==
    /\ mode = "Between"
    /\ n >= 1
    /\ \A i \in 1..n : outcome[i] = "err"

C2Post ==
    /\ retKind = "agg"
    /\ retRes = Nil
    /\ Len(retErrs) = n
    /\ Range(retErrs) = 1..n

\* C2: in Between with a non-empty batch, once every operation has failed the
\* call eventually returns a nil response and an aggregate holding exactly one
\* error per operation, with or without a client timeout.
C2_AllFail ==
    /\ [](mode = "Between" /\ retKind = "agg" => C2Post)
    /\ (C2Pre ~> C2Post)

\* C2 witness: two failures aggregated with no timeout set
C2_Witness ==
    /\ C2Pre
    /\ ~timeoutSet
    /\ n = 2
    /\ C2Post

\* the deadline of Between passed before any operation had succeeded
DeadlineBeforeSuccess ==
    /\ mode = "Between"
    /\ timeoutSet
    /\ deadlineFired
    /\ ~okAtDeadline

\* C3 as stated: when the deadline passes before any success, Between returns
\* a timeout error that is not the aggregate.
C3_Original ==
    DeadlineBeforeSuccess /\ pc = "done" => retKind = "timeout"

\* C3 amended: when the deadline passes before any success, Between does not
\* return on the deadline; it still returns only from a receive, no response
\* is returned any more, and the error it returns is the aggregate, returned
\* once the failure of every operation of the batch has been received.
C3_Amended ==
    DeadlineBeforeSuccess =>
        /\ \A i \in 1..n : outcome[i] # "ok"
        /\ retKind \in {"none", "agg"}
        /\ (pc = "done" <=> retKind = "agg")
        /\ (pc = "done" => \A i \in 1..n : st[i] = "done" /\ i \in Range(errs))
        /\ ((\E i \in 1..n : st[i] # "done") => pc # "done")

\* C3 witness: the aggregate returned after the deadline had cut off a request
C3_Witness ==
    /\ DeadlineBeforeSuccess
    /\ n >= 1
    /\ retKind = "agg"
    /\ \E i \in 1..n : cut[i]

\* the number of times operation i occurs in seq
Count(seq, i) == Cardinality({j \in 1..Len(seq) : seq[j] = i})

\* C4: with a client timeout, when the deadline passes before any success
\* (one request failed at once, the other still pending), the call returns a
\* nil response and an aggregate whose size is the batch size; every request
\* cut off by the deadline contributes exactly one error.
C4_FailAndTimeout ==
    DeadlineBeforeSuccess /\ pc = "done" =>
        /\ retRes = Nil
        /\ retKind = "agg"
        /\ Len(retErrs) = n
        /\ \A i \in 1..n : cut[i] => Count(retErrs, i) = 1

\* C4 witness: the test's case, one request failed by itself and one cut off
C4_Witness ==
    /\ DeadlineBeforeSuccess
    /\ pc = "done"
    /\ n = 2
    /\ Len(retErrs) = 2
    /\ \E i, j \in 1..2 : cut[i] /\ ~cut[j] /\ outcome[j] = "err"

\* C5 as stated: Between with no request returns at once an empty aggregate;
\* it is never left waiting in its select.
C5_EmptyBatch ==
    mode = "Between" /\ n = 0 /\ pc \notin {"start", "launch"} =>
        /\ pc = "done"
        /\ retKind = "agg"
        /\ retErrs = <<>>

\* C6 as stated: after the call has returned no makeRequest goroutine is
\* blocked on its send (no receiver is left, so such a send never completes).
C6_NoLeakedProducer ==
    pc = "done" => \A i \in Ops : st[i] \notin {"sendOk", "sendErr"}

\* the operations FirstThenStart has started
Launched == {i \in 0..n : st[i] # "idle"}

\* C7 as stated: when FirstThenStart returns the aggregate, every operation it
\* started has failed and its failure has been received.
C7_AggregateOnlyWhenAllFailed ==
    mode = "FirstThenStart" /\ retKind = "agg" =>
        \A i \in Launched : outcome[i] = "err" /\ st[i] = "done"

\* C8 as stated: the aggregate FirstThenStart returns holds 1 + len(reqs) errors.
C8_AggregateCount ==
    mode = "FirstThenStart" /\ retKind = "agg" => Len(retErrs) = 1 + n

C9Pre ==
    /\ mode = "FirstThenStart"
    /\ firstErr = Primary
    /\ n >= 1
    /\ \A i \in 1..n : outcome[i] = "err"

C9Post ==
    /\ retKind = "agg"
    /\ retRes = Nil
    /\ Len(retErrs) = 1 + n
    /\ retErrs[1] = Primary
    /\ Tail(retErrs) = errs
    /\ Range(errs) = 1..n

\* C9: in FirstThenStart, when the failure of `first` was received in the first
\* loop and every other request then fails, the call eventually returns a nil
\* response and the aggregate <<first's error>> followed by the other
\* requests' errors, 1 + len(reqs) in all.
C9_PrimaryThenAllFail ==
    /\ [](mode = "FirstThenStart" /\ firstErr # Nil /\ retKind = "agg" => C9Post)
    /\ (C9Pre ~> C9Post)

\* C9 witness: first's error received in the first loop, then two more
C9_Witness ==
    /\ C9Pre
    /\ n = 2
    /\ C9Post

\* the success of `first` is being received by the first loop in this step
Phase1Success ==
    /\ pc = "phase1"
    /\ recvd' = Append(recvd, Primary)
    /\ outcome[Primary] = "ok"

\* C10: when the success of `first` is received in the first loop, that step
\* returns first's response, and no other request is started then or later:
\* makeRequest was started exactly once.
C10_PrimaryWinsPhase1 ==
    /\ [][Phase1Success =>
            pc' = "done" /\ retKind' = "resp" /\ retRes' = Primary /\ retAt' = "phase1"]_vars
    /\ [](retAt = "phase1" =>
            /\ retKind = "resp"
            /\ retRes = Primary
            /\ calls = 1
            /\ \A i \in 1..MaxReqs : st[i] = "idle")

\* C10 witness: first's response returned from the first loop with other requests given
C10_Witness ==
    /\ retAt = "phase1"
    /\ retRes = Primary
    /\ n >= 1

\* the failure of `first` is being received by the first loop in this step
Phase1Failure ==
    /\ pc = "phase1"
    /\ recvd' = Append(recvd, Primary)
    /\ outcome[Primary] = "err"

C11Pre ==
    /\ mode = "FirstThenStart"
    /\ firstErr = Primary
    /\ \E i \in 1..n : outcome[i] = "ok"

C11Post ==
    /\ retKind = "resp"
    /\ retRes \in 1..n
    /\ retAt = "phase2"

\* C11: when the failure of `first` is received in the first loop, that step
\* leaves the loop for the launch loop whether or not the warm-up timer has
\* fired; all other requests are then started, and the success of one of them
\* is returned, also in the behaviours in which the timer never fires.
C11_PrimaryFailureEndsPhase1 ==
    /\ [][Phase1Failure => pc' = "launch" /\ firstErr' = Primary /\ warmFired' = warmFired]_vars
    /\ (mode = "FirstThenStart" /\ firstErr = Primary ~> calls = 1 + n)
    /\ (C11Pre ~> C11Post)

\* C11 witness: a later request's response returned with the timer never fired
C11_Witness ==
    /\ C11Pre
    /\ C11Post
    /\ ~warmFired

\* a success is being received by the second loop in this step
Phase2Success(i) ==
    /\ pc = "phase2"
    /\ recvd' = Append(recvd, i)
    /\ outcome[i] = "ok"

\* the first loop ended on the warm-up timer, `first` still not received
WarmUpEnded ==
    /\ mode = "FirstThenStart"
    /\ warmFired
    /\ firstErr = Nil
    /\ pc \in {"phase2", "done"}
    /\ retAt # "phase1"

\* C12: after the first loop ended on the warm-up timer, the first success
\* received by the second loop is returned in that step, be it from a later
\* request or from `first`; what it returns is the first success received, and
\* nothing that happens after the return changes the result.
C12_Phase2FirstSuccessWins ==
    /\ [][\A i \in Ops : Phase2Success(i) =>
            pc' = "done" /\ retKind' = "resp" /\ retRes' = i]_vars
    /\ [](WarmUpEnded /\ retKind = "resp" =>
            /\ recvd[Len(recvd)] = retRes
            /\ FirstSuccessAt(Len(recvd)))
    /\ [][pc = "done" =>
            pc' = "done" /\ retKind' = retKind /\ retRes' = retRes /\ retErrs' = retErrs]_vars

\* C12 witness: the late success of `first` returned while a later request is
\* still running, and that request's outcome produced after the return
C12_Witness ==
    /\ WarmUpEnded
    /\ retKind = "resp"
    /\ retRes = Primary
    /\ \E i \in 1..n : st[i] \in {"sendOk", "sendErr"}

\* C13 as stated: FirstThenStart with no other request returns, once the
\* failure of `first` has been received and the launch loop is passed, the
\* aggregate holding exactly first's error; it is never left waiting in the
\* second select with nothing left to receive.
C13_EmptySecondaries ==
    /\ mode = "FirstThenStart"
    /\ n = 0
    /\ outcome[Primary] = "err"
    /\ st[Primary] = "done"
    /\ pc # "launch"
    => /\ pc = "done"
       /\ retKind = "agg"
       /\ retErrs = <<Primary>>

\* C14: the errors of the aggregate Between returns are in the order in which
\* the failures were received from onError, which need not be the order of reqs.
C14_ErrorOrder ==
    mode = "Between" /\ retKind = "agg" =>
        /\ retErrs = recvd
        /\ \A j \in 1..Len(retErrs) : outcome[retErrs[j]] = "err"

\* C14 witness: a later request's failure received, and reported, first
C14_Witness ==
    /\ mode = "Between"
    /\ retKind = "agg"
    /\ retErrs = <<2, 1>>

\* the warm-up timer fires in this step
WarmUpStep == ~warmFired /\ warmFired'

\* C15: the context shared by the requests of a call is cancelled by every
\* return and by nothing else in the caller; before the return it can only be
\* done through the client timeout of Between.  The warm-up timer of
\* FirstThenStart leaves it and `first` untouched.
C15_CancellationScope ==
    /\ [](pc = "done" <=> cancelled)
    /\ [](pc # "done" /\ CtxDone => mode = "Between" /\ timeoutSet /\ deadlineFired)
    /\ [](mode = "FirstThenStart" /\ pc # "done" => ~CtxDone)
    /\ [][WarmUpStep => cancelled' = cancelled /\ deadlineFired' = deadlineFired
                        /\ st' = st /\ outcome' = outcome /\ ~CtxDone']_vars

\* C15 witness: `first` still running in the second loop after the warm-up
\* timer fired, its context not done
C15_Witness ==
    /\ mode = "FirstThenStart"
    /\ pc = "phase2"
    /\ warmFired
    /\ st[Primary] = "running"
    /\ ~CtxDone

\* C16 as stated: when the first loop ended on the warm-up timer, the outcome
\* of `first`, whenever produced, is received by the second loop.
C16_Original ==
    mode = "FirstThenStart" /\ retAt = "phase2" /\ firstErr = Nil
        /\ outcome[Primary] # "none"
    => st[Primary] = "done"

\* the first loop is left on the warm-up timer in this step
PhaseChange == pc = "phase1" /\ pc' = "launch" /\ firstErr' = Nil

\* the outcome of `first` is being received by the second loop in this step
Phase2Primary == pc = "phase2" /\ recvd' = Append(recvd, Primary)

\* C16 amended: leaving the first loop on the warm-up timer does not touch the
\* goroutine of `first` or its outcome; the second loop receives that outcome
\* unless the call returns first, and when it receives it a success is
\* returned as the result and a failure is appended to errs.
C16_Amended ==
    /\ [][PhaseChange => st' = st /\ outcome' = outcome /\ errs' = errs]_vars
    /\ [][Phase2Primary /\ outcome[Primary] = "ok" =>
            pc' = "done" /\ retKind' = "resp" /\ retRes' = Primary]_vars
    /\ [][Phase2Primary /\ outcome[Primary] = "err" => errs' = Append(errs, Primary)]_vars
    /\ (mode = "FirstThenStart" /\ firstErr = Nil /\ pc \in {"launch", "phase2"}
          ~> st[Primary] = "done" \/ pc = "done")

\* C16 witness: the failure of `first` received by the second loop and the
\* call still waiting
C16_Witness ==
    /\ mode = "FirstThenStart"
    /\ warmFired
    /\ firstErr = Nil
    /\ pc = "phase2"
    /\ errs = <<Primary>>

\* the call returns the aggregate in this step
ReturnsAggregate == retKind = "none" /\ retKind' = "agg"

\* a failure is being received by the second loop in this step, the n-th
StopStep ==
    /\ pc = "phase2"
    /\ Len(errs) = n - 1
    /\ errs' # errs
    /\ Len(errs') = n

\* the failure of `first` was received by the first loop
FailedInPhase1 ==
    /\ outcome[Primary] = "err"
    /\ st[Primary] = "done"
    /\ Primary \notin Range(errs)

C18_StagedTerminates ==
    mode = "FirstThenStart" /\ n >= 1 ~> pc = "done" /\ retKind \in {"resp", "agg"}

\* C18 witness: returned from the second loop, entered on the warm-up timer,
\* after every request had produced its outcome
C18_Witness ==
    /\ mode = "FirstThenStart"
    /\ n >= 1
    /\ pc = "done"
    /\ warmFired
    /\ firstErr = Nil
    /\ retAt = "phase2"
    /\ \A i \in 0..n : outcome[i] # "none"
====
